---- MODULE Spec2Model ----
(***************************************************************************)
(* Seasonal-Sales-Forecasting: the dashboard page's fetchData and the merge *)
(* of the History and Forecast series into chartData                        *)
(* (src/FrontEnd/app/dashboard/page.tsx), the page's other handlers, and    *)
(* the login page's handleLogin.                                            *)
(*                                                                          *)
(* Spec follows one mounted dashboard's fetchData (the call of line 132 and *)
(* the Retry clicks) over every payload the two reads may carry.  PageSpec  *)
(* follows the whole client (login, mount effect, fetchData, fetchOverview, *)
(* logout) over a sample of payloads.  FairSpec is Spec with the fairness   *)
(* fetchData's awaits rely on.  EngineSpec follows one run of the Forecast  *)
(* Engine, whose source is not in the tree, as the design document states   *)
(* its contract.  RenderSpec follows one call of renderOverview over the    *)
(* texts made of a set of sample lines.                                     *)
(*                                                                          *)
(* Dates are ISO calendar dates one period (week) apart; the model numbers  *)
(* them 1..MaxDate in calendar order, so date k+1 is the period after date  *)
(* k.  Two date strings are equal exactly when their numbers are, and       *)
(* new Date(s).getTime() is strictly increasing in the number.              *)
(*                                                                          *)
(* JavaScript objects are mutable and shared by reference: the merge writes *)
(* predicted_sales into elements of combinedData.  The model therefore      *)
(* keeps a heap of objects and arrays of references into it, so that a      *)
(* write through combinedData[i] reaches whatever object the array holds.   *)
(***************************************************************************)
EXTENDS Integers, Sequences, FiniteSets

\* Longest History / Forecast array a response carries.
MaxLen == 2
\* Number of calendar periods the dates range over.
MaxDate == 4

\* Longest text typed into the login page's Business ID field.
MaxInput == 3

\* Longest history handed to the Forecast Engine, and the largest horizon asked of it.
MaxHistory == 3
MaxHorizon == 3

\* Most lines an overview text handed to renderOverview has.
MaxLines == 3

\* The value of an absent optional field (sales?: number).
Undefined == -1

Dates == 1..MaxDate
\* Sales figures a History record may carry.
SalesValues == {50, 60}
\* Point estimates a Forecast record may carry.
PredValues == {55}

\* An object of the heap: a History record, a Forecast record or a chart point.
\* Fields the merge never reads (business_id, lower_bound, upper_bound) are left out.
HistoricalRecord(d, s) == [date |-> d, sales |-> s, predicted_sales |-> Undefined]
ForecastRecord(d, p) == [date |-> d, sales |-> Undefined, predicted_sales |-> p]

SeqsUpTo(S, n) == UNION {[1..k -> S] : k \in 0..n}

\* What GET /api/sales/{id}/input may return: any array of History records.
HistoryBodies == SeqsUpTo({HistoricalRecord(d, s) : d \in Dates, s \in SalesValues}, MaxLen)
\* What GET /api/sales/{id}/forecast may return: any array of Forecast records.
ForecastBodies == SeqsUpTo({ForecastRecord(d, p) : d \in Dates, p \in PredValues}, MaxLen)

\* A string is the sequence of its characters; the alphabet has a blank.
Chars == {" ", "a"}
\* What the user may type into the Business ID field.
Inputs == SeqsUpTo(Chars, MaxInput)
\* null (localStorage.getItem of an absent key): a symbol outside the alphabet.
Null == <<"null">>

\* The texts GET /api/sales/{id}/overview may carry.
OverviewTexts == {"", "Sales are rising."}

\* The payloads PageSpec lets the two reads carry.
SampleHistoryBodies == {<<>>, <<HistoricalRecord(1, 50), HistoricalRecord(2, 60)>>}
SampleForecastBodies == {<<>>, <<ForecastRecord(3, 55)>>}

VARIABLES
    pc,                  \* where fetchData stands: "idle", "awaiting", "done"
    historicalResponse,  \* [status, body] of the /input request
    forecastResponse,    \* [status, body] of the /forecast request
    historicalData,      \* React state
    forecastData,        \* React state
    chartData,           \* React state
    isLoading,           \* React state
    error,               \* React state
    businessId,          \* React state of DashboardPage
    overview,            \* React state
    isOverviewLoading,   \* React state
    overviewError,       \* React state
    opc,                 \* where fetchOverview stands: "idle", "awaiting", "done"
    overviewResponse,    \* [status, text] of the /overview request
    route,               \* the page shown: "/" (login) or "/dashboard"
    localStorage,        \* key -> value
    loginInput,          \* React state businessId of LoginPage
    loginLoading,        \* React state isLoading of LoginPage
    submitted,           \* history: the text handleLogin last accepted
    issued,              \* history: the requests the mounted dashboard has issued
    inFlight,            \* history: fetchData invocations begun and not yet ended
    seamBranch,          \* history: the seam branch the last merge took
    engineInput,         \* the history the Forecast Engine was last run on
    engineHorizon,       \* the horizon it was last run with (0: not yet run)
    engineOutput,        \* [status, points] it returned
    lines,               \* renderOverview: text.split(/\r?\n/)
    lineIndex,           \* renderOverview: the lines forEach has visited
    elements,            \* renderOverview: the blocks emitted
    paragraphBuffer,     \* renderOverview: the paragraph lines not yet emitted
    bullets,             \* renderOverview: the list items not yet emitted
    keyCounter,          \* renderOverview: the next key
    returned             \* renderOverview has returned

\* The states a fetchData run reads and writes.
fetchVars == <<pc, historicalResponse, forecastResponse, historicalData, forecastData, chartData, isLoading, error, inFlight, seamBranch>>
\* The states a fetchOverview run reads and writes.
overviewVars == <<overview, isOverviewLoading, overviewError, opc, overviewResponse>>
\* The browser and the login page.
loginVars == <<route, localStorage, loginInput, loginLoading, submitted>>

\* The Forecast Engine's run.
engineVars == <<engineInput, engineHorizon, engineOutput>>

\* A call of renderOverview.
renderVars == <<lines, lineIndex, elements, paragraphBuffer, bullets, keyCounter, returned>>

vars == <<fetchVars, overviewVars, loginVars, businessId, issued, engineVars, renderVars>>

Pending == [status |-> "pending", body |-> <<>>]
OverviewPending == [status |-> "pending", text |-> ""]

----------------------------------------------------------------------------
(* The merge of fetchData, lines 156-211.  m = [heap, combined]: the heap    *)
(* of objects and the combinedData array of references.                      *)

Min(S) == CHOOSE x \in S : \A y \in S : x <= y
Max(S) == CHOOSE x \in S : \A y \in S : x >= y

\* Array.prototype.findIndex / findLastIndex, given the positions (1-based) whose
\* element satisfies the callback: the 0-based index, -1 when there is none.
FindIndex(hits) == IF hits = {} THEN -1 ELSE Min(hits) - 1
FindLastIndex(hits) == IF hits = {} THEN -1 ELSE Max(hits) - 1

\* The element combinedData[i] (i 1-based here).
Point(m, i) == m.heap[m.combined[i]]

\* Faulty variant: combinedData.push(item), the History record itself charted.
PushHistoricalShared(m, item) ==
    [heap |-> m.heap, combined |-> Append(m.combined, item)]

\* combinedData.push({date: item.date, sales: item.sales}): a new object.
PushHistorical(m, item) ==
    [heap |-> Append(m.heap, [date |-> m.heap[item].date,
                              sales |-> m.heap[item].sales,
                              predicted_sales |-> Undefined]),
     combined |-> Append(m.combined, Len(m.heap) + 1)]

\* historical.forEach(...), items k..Len(historical) still to visit.
RECURSIVE AddHistorical(_, _, _)
AddHistorical(m, historical, k) ==
    IF k > Len(historical) THEN m
    ELSE AddHistorical(PushHistorical(m, historical[k]), historical, k + 1)

\* combinedData[i].predicted_sales = v, i 0-based.
SetPredicted(m, i, v) ==
    [m EXCEPT !.heap[m.combined[i + 1]].predicted_sales = v]

\* Faulty variant: the findIndex lookup dropped, every Forecast record pushed.
AddForecastItemAlwaysPush(m, item) ==
    [heap |-> Append(m.heap, [date |-> m.heap[item].date,
                              sales |-> Undefined,
                              predicted_sales |-> m.heap[item].predicted_sales]),
     combined |-> Append(m.combined, Len(m.heap) + 1)]

\* The body of forecast.forEach: update the point of the same date or push a new one.
AddForecastItem(m, item) ==
    LET d == m.heap[item].date
        existingIndex == FindIndex({i \in 1..Len(m.combined) : Point(m, i).date = d})
    IN  IF existingIndex >= 0
        THEN SetPredicted(m, existingIndex, m.heap[item].predicted_sales)
        ELSE [heap |-> Append(m.heap, [date |-> d,
                                       sales |-> Undefined,
                                       predicted_sales |-> m.heap[item].predicted_sales]),
              combined |-> Append(m.combined, Len(m.heap) + 1)]

RECURSIVE AddForecast(_, _, _)
AddForecast(m, forecast, k) ==
    IF k > Len(forecast) THEN m
    ELSE AddForecast(AddForecastItem(m, forecast[k]), forecast, k + 1)

\* Faulty variant: the comparator's operands exchanged, the sort descending.
CompareDatesDescending(a, b) == b.date - a.date

\* The comparator of the sort: new Date(a.date).getTime() - new Date(b.date).getTime().
CompareDates(a, b) == a.date - b.date

\* r inserted into the sorted refs behind every element that does not compare greater.
RECURSIVE InsertSorted(_, _, _)
InsertSorted(heap, refs, r) ==
    IF refs = <<>> THEN <<r>>
    ELSE IF CompareDates(heap[Head(refs)], heap[r]) > 0
         THEN <<r>> \o refs
         ELSE <<Head(refs)>> \o InsertSorted(heap, Tail(refs), r)

RECURSIVE StableSort(_, _)
StableSort(heap, refs) ==
    IF refs = <<>> THEN <<>>
    ELSE InsertSorted(heap, StableSort(heap, SubSeq(refs, 1, Len(refs) - 1)), refs[Len(refs)])

\* combinedData.sort(...): in place, stable (ECMAScript 2019), the objects untouched.
SortByDate(m) == [m EXCEPT !.combined = StableSort(m.heap, m.combined)]

lastHistoricalIndex(m) ==
    FindLastIndex({i \in 1..Len(m.combined) : Point(m, i).sales # Undefined})
firstForecastIndex(m) ==
    FindIndex({i \in 1..Len(m.combined) : Point(m, i).predicted_sales # Undefined})

\* Faulty variant: the connecting value written into the first Forecast point.
BridgeAtFirstForecast(m, lhi) ==
    SetPredicted(m, lhi + 1, Point(m, lhi + 1).sales)

\* Faulty variant: lastHistoricalPoint.predicted_sales = firstForecastPoint.predicted_sales
BridgeWithForecastValue(m, lhi) ==
    SetPredicted(m, lhi, Point(m, firstForecastIndex(m) + 1).predicted_sales)

\* lastHistoricalPoint.predicted_sales = lastHistoricalPoint.sales
BridgeLastHistorical(m, lhi) ==
    SetPredicted(m, lhi, Point(m, lhi + 1).sales)

\* Faulty variant: the loop bound written i < lastHistoricalIndex.
RECURSIVE OverlapLoopShort(_, _, _)
OverlapLoopShort(m, i, lhi) ==
    IF i >= lhi THEN m
    ELSE LET o == Point(m, i + 1)
         IN  OverlapLoopShort(IF o.sales # Undefined THEN SetPredicted(m, i, o.sales) ELSE m,
                              i + 1, lhi)

\* Faulty variant: only points that already carry both fields are forced equal.
RECURSIVE OverlapLoopBothFields(_, _, _)
OverlapLoopBothFields(m, i, lhi) ==
    IF i > lhi THEN m
    ELSE LET o == Point(m, i + 1)
         IN  OverlapLoopBothFields(
                 IF o.sales # Undefined /\ o.predicted_sales # Undefined
                 THEN SetPredicted(m, i, o.sales) ELSE m,
                 i + 1, lhi)

\* Faulty variant: the loop body without the test of line 207.
RECURSIVE OverlapLoopUnchecked(_, _, _)
OverlapLoopUnchecked(m, i, lhi) ==
    IF i > lhi THEN m
    ELSE OverlapLoopUnchecked(SetPredicted(m, i, Point(m, i + 1).sales), i + 1, lhi)

\* for (let i = firstForecastIndex; i <= lastHistoricalIndex; i++) ...
RECURSIVE OverlapLoop(_, _, _)
OverlapLoop(m, i, lhi) ==
    IF i > lhi THEN m
    ELSE LET o == Point(m, i + 1)
         IN  OverlapLoop(IF o.sales # Undefined THEN SetPredicted(m, i, o.sales) ELSE m,
                         i + 1, lhi)

\* Faulty variant: the gap told by the dates, as the comment of line 186 reads:
\* "gap" when the first Forecast point lies more than a period after the last
\* History point.
SeamBranchByDates(m) ==
    LET lhi == lastHistoricalIndex(m)
        ffi == firstForecastIndex(m)
    IN  IF lhi >= 0 /\ ffi >= 0 /\ ffi > lhi
           /\ Point(m, ffi + 1).date > Point(m, lhi + 1).date + 1 THEN "gap"
        ELSE IF lhi >= 0 /\ ffi >= 0 /\ ffi = lhi + 1 THEN "adjacent"
        ELSE IF lhi >= 0 /\ ffi >= 0 /\ ffi <= lhi THEN "overlap"
        ELSE "none"

\* Which branch of the seam logic the sorted combinedData takes.
SeamBranch(m) ==
    LET lhi == lastHistoricalIndex(m)
        ffi == firstForecastIndex(m)
    IN  IF lhi >= 0 /\ ffi >= 0 /\ ffi > lhi + 1 THEN "gap"
        ELSE IF lhi >= 0 /\ ffi >= 0 /\ ffi = lhi + 1 THEN "adjacent"
        ELSE IF lhi >= 0 /\ ffi >= 0 /\ ffi <= lhi THEN "overlap"
        ELSE "none"

\* Faulty variant: the bridging branches without the firstForecastIndex >= 0 test.
BridgeSeamUnguarded(m) ==
    LET lhi == lastHistoricalIndex(m)
        ffi == firstForecastIndex(m)
    IN  IF lhi >= 0 /\ (ffi < 0 \/ ffi > lhi) THEN BridgeLastHistorical(m, lhi)
        ELSE IF lhi >= 0 /\ ffi >= 0 /\ ffi <= lhi THEN OverlapLoop(m, ffi, lhi)
        ELSE m

\* The if / else if / else if of lines 185-211.
BridgeSeam(m) ==
    LET lhi == lastHistoricalIndex(m)
        ffi == firstForecastIndex(m)
        branch == SeamBranch(m)
    IN  IF branch = "gap" THEN BridgeLastHistorical(m, lhi)
        ELSE IF branch = "adjacent" THEN BridgeLastHistorical(m, lhi)
        ELSE IF branch = "overlap" THEN OverlapLoop(m, ffi, lhi)
        ELSE m

\* The arrays response.json() yields: fresh objects, History first.
ParseBodies(hbody, fbody) ==
    [heap |-> hbody \o fbody, combined |-> <<>>]

HistoricalRefs(hbody) == [i \in 1..Len(hbody) |-> i]
ForecastRefs(hbody, fbody) == [i \in 1..Len(fbody) |-> Len(hbody) + i]

\* Lines 156-180 on the two parsed arrays: combinedData filled and sorted.
Combine(hbody, fbody) ==
    SortByDate(
        AddForecast(
            AddHistorical(ParseBodies(hbody, fbody), HistoricalRefs(hbody), 1),
            ForecastRefs(hbody, fbody), 1))

\* Lines 156-211 on the two parsed arrays.
Merge(hbody, fbody) == BridgeSeam(Combine(hbody, fbody))

\* The objects an array of references holds.
Deref(heap, refs) == [i \in 1..Len(refs) |-> heap[refs[i]]]

----------------------------------------------------------------------------
(* Strings and localStorage.                                                *)

\* String.prototype.trim: the blanks at both ends removed.
RECURSIVE TrimStart(_)
TrimStart(str) ==
    IF str # <<>> /\ Head(str) = " " THEN TrimStart(Tail(str)) ELSE str

RECURSIVE TrimEnd(_)
TrimEnd(str) ==
    IF str # <<>> /\ str[Len(str)] = " " THEN TrimEnd(SubSeq(str, 1, Len(str) - 1)) ELSE str

Trim(str) == TrimEnd(TrimStart(str))

\* !value for a string or null.
Falsy(value) == value = Null \/ value = <<>>

GetItem(ls, key) == IF key \in DOMAIN ls THEN ls[key] ELSE Null
SetItem(ls, key, value) == [k \in DOMAIN ls \cup {key} |-> IF k = key THEN value ELSE ls[k]]
RemoveItem(ls, key) == [k \in DOMAIN ls \ {key} |-> ls[k]]

\* A request of the dashboard: fetch(`http://127.0.0.1:8000/api/sales/${id}/<endpoint>`).
Request(endpoint, id) == [endpoint |-> endpoint, id |-> id]

----------------------------------------------------------------------------
(* fetchData as a process: the code up to the first await, the two          *)
(* requests settling, and the code after Promise.all.                       *)

\* The states of a DashboardPage just constructed, no effect run yet.
DashboardConstructed ==
    /\ pc = "idle"
    /\ historicalResponse = Pending
    /\ forecastResponse = Pending
    /\ historicalData = <<>>
    /\ forecastData = <<>>
    /\ chartData = <<>>
    /\ isLoading = TRUE
    /\ error = ""
    /\ businessId = <<>>
    /\ overview = ""
    /\ isOverviewLoading = FALSE
    /\ overviewError = ""
    /\ opc = "idle"
    /\ overviewResponse = OverviewPending
    /\ issued = {}
    /\ inFlight = 0
    /\ seamBranch = "none"

\* The states of a LoginPage just constructed.
LoginConstructed ==
    /\ loginInput = <<>>
    /\ loginLoading = FALSE

\* renderOverview not called: no text, its locals as they are declared (lines 67-70).
RenderIdle ==
    /\ lines = <<>>
    /\ lineIndex = 0
    /\ elements = <<>>
    /\ paragraphBuffer = <<>>
    /\ bullets = <<>>
    /\ keyCounter = 0
    /\ returned = FALSE

\* The Forecast Engine not yet run.
EngineIdle ==
    /\ engineInput = <<>>
    /\ engineHorizon = 0
    /\ engineOutput = [status |-> "none", points |-> <<>>]

\* A dashboard constructed for a business that logged in as "a".
Init ==
    /\ DashboardConstructed
    /\ LoginConstructed
    /\ route = "/dashboard"
    /\ localStorage = SetItem(<<>>, "business_id", <<"a">>)
    /\ submitted = <<"a">>
    /\ EngineIdle
    /\ RenderIdle

\* Faulty variant: fetchData without the setIsLoading(true) and setError("") of
\* lines 138-139.
FetchDataBeginNotLoading(id) ==
    /\ historicalResponse' = Pending
    /\ forecastResponse' = Pending
    /\ pc' = "awaiting"
    /\ inFlight' = inFlight + 1
    /\ UNCHANGED <<isLoading, error, historicalData, forecastData, chartData, seamBranch>>

\* fetchData(id) up to the await: setIsLoading(true), setError(""), both requests issued.
FetchDataBegin(id) ==
    /\ isLoading' = TRUE
    /\ error' = ""
    /\ historicalResponse' = Pending
    /\ forecastResponse' = Pending
    /\ pc' = "awaiting"
    /\ inFlight' = inFlight + 1
    /\ UNCHANGED <<historicalData, forecastData, chartData, seamBranch>>

\* The mount effect's setBusinessId(storedBusinessId) and fetchData(storedBusinessId).
FetchDataStart ==
    /\ route = "/dashboard"
    /\ pc = "idle"
    /\ ~Falsy(GetItem(localStorage, "business_id"))
    /\ businessId' = GetItem(localStorage, "business_id")
    /\ FetchDataBegin(GetItem(localStorage, "business_id"))
    /\ issued' = issued \cup { Request("input", GetItem(localStorage, "business_id")),
                              Request("forecast", GetItem(localStorage, "business_id")) }
    /\ UNCHANGED <<overviewVars, loginVars>>
    /\ UNCHANGED engineVars
    /\ UNCHANGED renderVars

\* The Retry button of the error banner, rendered when not loading and error is
\* set: fetchData(businessId).
Retry ==
    /\ route = "/dashboard"
    /\ ~isLoading
    /\ error # ""
    /\ FetchDataBegin(businessId)
    /\ issued' = issued \cup {Request("input", businessId), Request("forecast", businessId)}
    /\ UNCHANGED <<overviewVars, loginVars, businessId>>
    /\ UNCHANGED engineVars
    /\ UNCHANGED renderVars

\* The /input request settles: a 2xx with one of the bodies, a non-ok status, or a rejection.
HistoricalRespondsWith(bodies) ==
    /\ pc = "awaiting"
    /\ historicalResponse.status = "pending"
    /\ \/ \E b \in bodies : historicalResponse' = [status |-> "ok", body |-> b]
       \/ \E s \in {"notok", "rejected"} : historicalResponse' = [status |-> s, body |-> <<>>]
    /\ UNCHANGED <<pc, forecastResponse, historicalData, forecastData, chartData, isLoading, error>>
    /\ UNCHANGED <<inFlight, seamBranch, overviewVars, loginVars, businessId, issued>>
    /\ UNCHANGED engineVars
    /\ UNCHANGED renderVars

\* The /forecast request settles.
ForecastRespondsWith(bodies) ==
    /\ pc = "awaiting"
    /\ forecastResponse.status = "pending"
    /\ \/ \E b \in bodies : forecastResponse' = [status |-> "ok", body |-> b]
       \/ \E s \in {"notok", "rejected"} : forecastResponse' = [status |-> s, body |-> <<>>]
    /\ UNCHANGED <<pc, historicalResponse, historicalData, forecastData, chartData, isLoading, error>>
    /\ UNCHANGED <<inFlight, seamBranch, overviewVars, loginVars, businessId, issued>>
    /\ UNCHANGED engineVars
    /\ UNCHANGED renderVars

HistoricalResponds == HistoricalRespondsWith(HistoryBodies)
ForecastResponds == ForecastRespondsWith(ForecastBodies)

\* Faulty variant: line 146 written with && for ||, so one ok response is enough.
FetchDataSucceedEitherOk ==
    /\ pc = "awaiting"
    /\ historicalResponse.status \in {"ok", "notok"}
    /\ forecastResponse.status \in {"ok", "notok"}
    /\ "ok" \in {historicalResponse.status, forecastResponse.status}
    /\ LET hbody == historicalResponse.body
           fbody == forecastResponse.body
           m == Merge(hbody, fbody)
       IN  /\ historicalData' = Deref(m.heap, HistoricalRefs(hbody))
           /\ forecastData' = Deref(m.heap, ForecastRefs(hbody, fbody))
           /\ chartData' = Deref(m.heap, m.combined)
           /\ seamBranch' = SeamBranch(Combine(hbody, fbody))
    /\ isLoading' = FALSE
    /\ pc' = "done"
    /\ inFlight' = inFlight - 1
    /\ UNCHANGED <<historicalResponse, forecastResponse, error>>
    /\ UNCHANGED <<overviewVars, loginVars, businessId, issued>>
    /\ UNCHANGED engineVars
    /\ UNCHANGED renderVars

\* Lines 150-213 and the finally: both responses ok, the states set, the merge charted.
FetchDataSucceed ==
    /\ pc = "awaiting"
    /\ historicalResponse.status = "ok"
    /\ forecastResponse.status = "ok"
    /\ LET hbody == historicalResponse.body
           fbody == forecastResponse.body
           m == Merge(hbody, fbody)
       IN  /\ historicalData' = Deref(m.heap, HistoricalRefs(hbody))
           /\ forecastData' = Deref(m.heap, ForecastRefs(hbody, fbody))
           /\ chartData' = Deref(m.heap, m.combined)
           /\ seamBranch' = SeamBranch(Combine(hbody, fbody))
    /\ isLoading' = FALSE
    /\ pc' = "done"
    /\ inFlight' = inFlight - 1
    /\ UNCHANGED <<historicalResponse, forecastResponse, error>>
    /\ UNCHANGED <<overviewVars, loginVars, businessId, issued>>
    /\ UNCHANGED engineVars
    /\ UNCHANGED renderVars

\* Faulty variant: setIsLoading(false) at the end of the try instead of in a finally.
FetchDataFailStillLoading ==
    /\ pc = "awaiting"
    /\ \/ historicalResponse.status = "rejected"
       \/ forecastResponse.status = "rejected"
       \/ /\ historicalResponse.status \in {"ok", "notok"}
          /\ forecastResponse.status \in {"ok", "notok"}
          /\ "notok" \in {historicalResponse.status, forecastResponse.status}
    /\ error' = "Failed to load dashboard data. Please check your connection."
    /\ pc' = "done"
    /\ inFlight' = inFlight - 1
    /\ UNCHANGED <<historicalResponse, forecastResponse, historicalData, forecastData, chartData, seamBranch>>
    /\ UNCHANGED <<isLoading, overviewVars, loginVars, businessId, issued>>
    /\ UNCHANGED engineVars
    /\ UNCHANGED renderVars

\* Promise.all rejects as soon as one request rejects; with both settled and one
\* not ok, line 147 throws.  The catch sets error, the finally clears isLoading.
FetchDataFail ==
    /\ pc = "awaiting"
    /\ \/ historicalResponse.status = "rejected"
       \/ forecastResponse.status = "rejected"
       \/ /\ historicalResponse.status \in {"ok", "notok"}
          /\ forecastResponse.status \in {"ok", "notok"}
          /\ "notok" \in {historicalResponse.status, forecastResponse.status}
    /\ error' = "Failed to load dashboard data. Please check your connection."
    /\ isLoading' = FALSE
    /\ pc' = "done"
    /\ inFlight' = inFlight - 1
    /\ UNCHANGED <<historicalResponse, forecastResponse, historicalData, forecastData, chartData, seamBranch>>
    /\ UNCHANGED <<overviewVars, loginVars, businessId, issued>>
    /\ UNCHANGED engineVars
    /\ UNCHANGED renderVars

Next ==
    \/ FetchDataStart
    \/ Retry
    \/ HistoricalResponds
    \/ ForecastResponds
    \/ FetchDataSucceed
    \/ FetchDataFail

Spec == Init /\ [][Next]_vars

\* The states in which FetchDataSucceed can take a step (it always changes pc).
FetchDataSucceedEnabled ==
    /\ pc = "awaiting"
    /\ historicalResponse.status = "ok"
    /\ forecastResponse.status = "ok"

\* Spec with the scheduling fetchData relies on: a request in flight settles, and
\* the code behind the await runs once its promise has settled.  The third
\* conjunct is WF_vars(FetchDataSucceed) written out, with FetchDataSucceedEnabled
\* for ENABLED <<FetchDataSucceed>>_vars.
FairSpec ==
    /\ Spec
    /\ WF_vars(HistoricalResponds)
    /\ WF_vars(ForecastResponds)
    /\ ([]<>(~FetchDataSucceedEnabled) \/ []<><<FetchDataSucceed>>_vars)
    /\ WF_vars(FetchDataFail)

----------------------------------------------------------------------------
(* fetchOverview, the mount effect, logout and the login page.              *)

\* fetchOverview(id) up to the await.
FetchOverviewBegin(id) ==
    /\ isOverviewLoading' = TRUE
    /\ overviewError' = ""
    /\ overviewResponse' = OverviewPending
    /\ opc' = "awaiting"
    /\ UNCHANGED overview

\* The /overview request settles.
OverviewResponds ==
    /\ opc = "awaiting"
    /\ overviewResponse.status = "pending"
    /\ \/ \E t \in OverviewTexts : overviewResponse' = [status |-> "ok", text |-> t]
       \/ \E s \in {"notok", "rejected"} : overviewResponse' = [status |-> s, text |-> ""]
    /\ UNCHANGED <<overview, isOverviewLoading, overviewError, opc>>
    /\ UNCHANGED <<fetchVars, loginVars, businessId, issued>>
    /\ UNCHANGED engineVars
    /\ UNCHANGED renderVars

\* Lines 231-232 and the finally.
FetchOverviewSucceed ==
    /\ opc = "awaiting"
    /\ overviewResponse.status = "ok"
    /\ overview' = overviewResponse.text
    /\ isOverviewLoading' = FALSE
    /\ opc' = "done"
    /\ UNCHANGED <<overviewError, overviewResponse>>
    /\ UNCHANGED <<fetchVars, loginVars, businessId, issued>>
    /\ UNCHANGED engineVars
    /\ UNCHANGED renderVars

\* Faulty variant: the catch calls setError for setOverviewError.
FetchOverviewFailSetsError ==
    /\ opc = "awaiting"
    /\ overviewResponse.status \in {"notok", "rejected"}
    /\ overview' = ""
    /\ error' = "Unable to load AI overview."
    /\ isOverviewLoading' = FALSE
    /\ opc' = "done"
    /\ UNCHANGED <<overviewError, overviewResponse>>
    /\ UNCHANGED <<pc, historicalResponse, forecastResponse, historicalData, forecastData>>
    /\ UNCHANGED <<chartData, isLoading, inFlight, seamBranch, loginVars, businessId, issued>>
    /\ UNCHANGED engineVars
    /\ UNCHANGED renderVars

\* The throw of line 229 or a rejected fetch: the catch and the finally.
FetchOverviewFail ==
    /\ opc = "awaiting"
    /\ overviewResponse.status \in {"notok", "rejected"}
    /\ overview' = ""
    /\ overviewError' = "Unable to load AI overview."
    /\ isOverviewLoading' = FALSE
    /\ opc' = "done"
    /\ UNCHANGED overviewResponse
    /\ UNCHANGED <<fetchVars, loginVars, businessId, issued>>
    /\ UNCHANGED engineVars
    /\ UNCHANGED renderVars

\* The dashboard leaves the screen: the next one shown is constructed anew, and what
\* the old one still had in flight no longer reaches any state.
DashboardDiscarded ==
    /\ pc' = "idle"
    /\ historicalResponse' = Pending
    /\ forecastResponse' = Pending
    /\ historicalData' = <<>>
    /\ forecastData' = <<>>
    /\ chartData' = <<>>
    /\ isLoading' = TRUE
    /\ error' = ""
    /\ businessId' = <<>>
    /\ overview' = ""
    /\ isOverviewLoading' = FALSE
    /\ overviewError' = ""
    /\ opc' = "idle"
    /\ overviewResponse' = OverviewPending
    /\ issued' = {}
    /\ inFlight' = 0
    /\ seamBranch' = "none"

\* Faulty variant: the mount effect without the test of line 127.
DashboardMountUnguarded ==
    /\ route = "/dashboard"
    /\ pc = "idle"
    /\ opc = "idle"
    /\ LET storedBusinessId == GetItem(localStorage, "business_id")
       IN  /\ businessId' = storedBusinessId
           /\ FetchDataBegin(storedBusinessId)
           /\ FetchOverviewBegin(storedBusinessId)
           /\ issued' = issued \cup { Request("input", storedBusinessId),
                                     Request("forecast", storedBusinessId),
                                     Request("overview", storedBusinessId) }
           /\ UNCHANGED loginVars
    /\ UNCHANGED engineVars
    /\ UNCHANGED renderVars

\* The mount effect of DashboardPage, lines 125-134.
DashboardMount ==
    /\ route = "/dashboard"
    /\ pc = "idle"
    /\ opc = "idle"
    /\ LET storedBusinessId == GetItem(localStorage, "business_id")
       IN  IF Falsy(storedBusinessId)
           THEN /\ route' = "/"
                /\ UNCHANGED <<fetchVars, overviewVars, businessId, issued>>
                /\ UNCHANGED <<localStorage, loginInput, loginLoading, submitted>>
           ELSE /\ businessId' = storedBusinessId
                /\ FetchDataBegin(storedBusinessId)
                /\ FetchOverviewBegin(storedBusinessId)
                /\ issued' = issued \cup { Request("input", storedBusinessId),
                                          Request("forecast", storedBusinessId),
                                          Request("overview", storedBusinessId) }
                /\ UNCHANGED loginVars
    /\ UNCHANGED engineVars
    /\ UNCHANGED renderVars

\* handleLogout, lines 242-245; the Logout button is in the view behind the loading view.
HandleLogout ==
    /\ route = "/dashboard"
    /\ pc # "idle"
    /\ ~isLoading
    /\ localStorage' = RemoveItem(localStorage, "business_id")
    /\ route' = "/"
    /\ DashboardDiscarded
    /\ UNCHANGED <<loginInput, loginLoading, submitted>>
    /\ UNCHANGED engineVars
    /\ UNCHANGED renderVars

\* onChange of the Business ID field: setBusinessId(e.target.value).
TypeBusinessId ==
    /\ route = "/"
    /\ \E text \in Inputs : loginInput' = text
    /\ UNCHANGED <<fetchVars, overviewVars, businessId, issued>>
    /\ UNCHANGED <<route, localStorage, loginLoading, submitted>>
    /\ UNCHANGED engineVars
    /\ UNCHANGED renderVars

\* Faulty variant: the id tested and stored as typed, without trim().
HandleLoginUntrimmed ==
    /\ route = "/"
    /\ ~loginLoading
    /\ IF loginInput = <<>>
       THEN UNCHANGED vars
       ELSE /\ loginLoading' = TRUE
            /\ localStorage' = SetItem(localStorage, "business_id", loginInput)
            /\ submitted' = loginInput
            /\ UNCHANGED <<fetchVars, overviewVars, businessId, issued>>
            /\ UNCHANGED <<route, loginInput>>
    /\ UNCHANGED engineVars
    /\ UNCHANGED renderVars

\* handleLogin up to its await (setup.bat lines 120-129): the early return on a
\* blank id, else the trimmed id stored and the 500 ms timer started.
HandleLogin ==
    /\ route = "/"
    /\ ~loginLoading
    /\ IF Trim(loginInput) = <<>>
       THEN UNCHANGED vars
       ELSE /\ loginLoading' = TRUE
            /\ localStorage' = SetItem(localStorage, "business_id", Trim(loginInput))
            /\ submitted' = loginInput
            /\ UNCHANGED <<fetchVars, overviewVars, businessId, issued>>
            /\ UNCHANGED <<route, loginInput>>
    /\ UNCHANGED engineVars
    /\ UNCHANGED renderVars

\* handleLogin behind its await: router.push("/dashboard"); the login page goes.
LoginNavigate ==
    /\ route = "/"
    /\ loginLoading
    /\ route' = "/dashboard"
    /\ loginInput' = <<>>
    /\ loginLoading' = FALSE
    /\ UNCHANGED <<fetchVars, overviewVars, businessId, issued>>
    /\ UNCHANGED <<localStorage, submitted>>
    /\ UNCHANGED engineVars
    /\ UNCHANGED renderVars

\* The user opens /dashboard by its address.
OpenDashboard ==
    /\ route = "/"
    /\ ~loginLoading
    /\ route' = "/dashboard"
    /\ loginInput' = <<>>
    /\ UNCHANGED <<fetchVars, overviewVars, businessId, issued>>
    /\ UNCHANGED <<localStorage, loginLoading, submitted>>
    /\ UNCHANGED engineVars
    /\ UNCHANGED renderVars

\* The user leaves the dashboard for the login page by its address, without logging out.
OpenLogin ==
    /\ route = "/dashboard"
    /\ route' = "/"
    /\ DashboardDiscarded
    /\ UNCHANGED <<localStorage, loginInput, loginLoading, submitted>>
    /\ UNCHANGED engineVars
    /\ UNCHANGED renderVars

HistoricalSampleResponds == HistoricalRespondsWith(SampleHistoryBodies)
ForecastSampleResponds == ForecastRespondsWith(SampleForecastBodies)

\* The browser opened on the login page, nothing stored.
PageInit ==
    /\ DashboardConstructed
    /\ LoginConstructed
    /\ route = "/"
    /\ localStorage = <<>>
    /\ submitted = <<>>
    /\ EngineIdle
    /\ RenderIdle

PageNext ==
    \/ TypeBusinessId
    \/ HandleLogin
    \/ LoginNavigate
    \/ OpenDashboard
    \/ OpenLogin
    \/ DashboardMount
    \/ HistoricalSampleResponds
    \/ ForecastSampleResponds
    \/ OverviewResponds
    \/ FetchDataSucceed
    \/ FetchDataFail
    \/ FetchOverviewSucceed
    \/ FetchOverviewFail
    \/ Retry
    \/ HandleLogout

PageSpec == PageInit /\ [][PageNext]_vars

----------------------------------------------------------------------------
(* The Forecast Engine (forecast.py, run as src/unnamed/part_000 lines 11-12 *)
(* say).  Its source is not in the tree; it is modelled from the design      *)
(* document's contract (section 4.1).  A history is a sequence of            *)
(* [date, sales]; the dates are period numbers as above, and the forecast's  *)
(* dates run past MaxDate.                                                   *)

\* InsufficientHistory below this many periods.
MinimumPeriods == 2

\* Sales figures a stored observation may carry; a negative one is malformed.
EngineSales == {-5, 50}
SalesObservation(d, s) == [date |-> d, sales |-> s]
\* Step 1 of the algorithm: non-empty, no negative sales, dates strictly increasing.
ValidSeries(history) ==
    /\ history # <<>>
    /\ \A i \in 1..Len(history) : history[i].sales >= 0
    /\ \A i \in 1..(Len(history) - 1) : history[i].date < history[i + 1].date

\* The period step: the spacing of the last two input dates.
InferStep(history) == history[Len(history)].date - history[Len(history) - 1].date

\* Level and trend of the last two observations.
Trend(history) == history[Len(history)].sales - history[Len(history) - 1].sales

\* Faulty variant: the step taken to be one period whatever the input's spacing.
ForecastPointUnitStep(history, k) ==
    LET last == history[Len(history)]
        predicted == last.sales + k * Trend(history)
        spread == k * (IF Trend(history) >= 0 THEN Trend(history) ELSE -Trend(history))
    IN  [date |-> last.date + k,
         predicted_sales |-> predicted,
         lower_bound |-> IF predicted - spread < 0 THEN 0 ELSE predicted - spread,
         upper_bound |-> predicted + spread]

\* The k-th forecast point: k steps after the last input date, the level and trend
\* projected, the interval widening with k and its lower end clamped at zero.
ForecastPoint(history, k) ==
    LET last == history[Len(history)]
        predicted == last.sales + k * Trend(history)
        spread == k * (IF Trend(history) >= 0 THEN Trend(history) ELSE -Trend(history))
    IN  [date |-> last.date + k * InferStep(history),
         predicted_sales |-> predicted,
         lower_bound |-> IF predicted - spread < 0 THEN 0 ELSE predicted - spread,
         upper_bound |-> predicted + spread]

\* The engine's contract: validate, require the minimum history, project h points.
ForecastEngine(history, h) ==
    IF ~ValidSeries(history)
    THEN [status |-> "InvalidInputSeries", points |-> <<>>]
    ELSE IF Len(history) < MinimumPeriods
    THEN [status |-> "InsufficientHistory", points |-> <<>>]
    ELSE [status |-> "ok", points |-> [k \in 1..h |-> ForecastPoint(history, k)]]

\* The run reads the business's history, one stored observation after the other.
ReadObservation ==
    /\ engineHorizon = 0
    /\ Len(engineInput) < MaxHistory
    /\ \E d \in Dates, s \in EngineSales :
          engineInput' = Append(engineInput, SalesObservation(d, s))
    /\ UNCHANGED <<engineHorizon, engineOutput>>
    /\ UNCHANGED <<fetchVars, overviewVars, loginVars, businessId, issued>>
    /\ UNCHANGED renderVars

\* The engine called on the history read, with a horizon of h periods.
RunForecast ==
    /\ engineHorizon = 0
    /\ \E h \in 1..MaxHorizon :
          /\ engineHorizon' = h
          /\ engineOutput' = ForecastEngine(engineInput, h)
    /\ UNCHANGED engineInput
    /\ UNCHANGED <<fetchVars, overviewVars, loginVars, businessId, issued>>
    /\ UNCHANGED renderVars

EngineNext ==
    \/ ReadObservation
    \/ RunForecast

EngineSpec == Init /\ [][EngineNext]_vars

----------------------------------------------------------------------------
(* renderOverview, lines 64-123: the overview text cut into paragraphs and   *)
(* bullet lists.  A line is the sequence of its characters; an emitted block *)
(* holds the strings it hands to formatInlineMarkdown.                       *)

\* \s, [-*•] ("u2022" stands for the character U+2022) and \d.
Whitespace == {" "}
Markers == {"-", "*", "u2022"}
Digits == {"1", "2"}

\* The lines an overview text is made of: empty and blank lines, plain lines,
\* bullet lines of each format, blanks around a bullet line, and lines that
\* begin like a bullet line without being one.
OverviewLines ==
    { <<>>,
      <<" ">>,
      <<"a">>,
      <<"b", " ", "c">>,
      <<"-", " ", "d">>,
      <<"*", " ", "e">>,
      <<"u2022", " ", "f">>,
      <<"1", ".", " ", "g">>,
      <<"1", "2", ".", " ", "h">>,
      <<" ", "-", " ", " ", "i", " ">>,
      <<"-", "j">>,
      <<"1", ".", "k">>,
      <<"-", " ">> }

\* The arrays text.split(/\r?\n/) may give: at least one line.
OverviewSplits == SeqsUpTo(OverviewLines, MaxLines) \ {<<>>}

\* paragraphBuffer.join(" ")
RECURSIVE JoinWithSpace(_)
JoinWithSpace(buffer) ==
    IF buffer = <<>> THEN <<>>
    ELSE IF Len(buffer) = 1 THEN buffer[1]
    ELSE buffer[1] \o <<" ">> \o JoinWithSpace(Tail(buffer))

\* The locals of renderOverview as one record.
Locals ==
    [elements |-> elements, paragraphBuffer |-> paragraphBuffer,
     bullets |-> bullets, keyCounter |-> keyCounter]

\* flushParagraph, lines 72-80.
FlushParagraph(st) ==
    IF st.paragraphBuffer # <<>>
    THEN [st EXCEPT !.elements = Append(@, [tag |-> "p", key |-> st.keyCounter,
                                            markdown |-> <<JoinWithSpace(st.paragraphBuffer)>>]),
                    !.keyCounter = @ + 1,
                    !.paragraphBuffer = <<>>]
    ELSE st

\* flushBullets, lines 82-94.
FlushBullets(st) ==
    IF st.bullets # <<>>
    THEN [st EXCEPT !.elements = Append(@, [tag |-> "ul", key |-> st.keyCounter,
                                            markdown |-> st.bullets]),
                    !.keyCounter = @ + 1,
                    !.bullets = <<>>]
    ELSE st

\* The length of the match of /^[-*•]\s+/ in line, 0 when there is none.
MatchMarker(line) ==
    IF Len(line) >= 2 /\ line[1] \in Markers /\ line[2] \in Whitespace
    THEN Len(line) - Len(TrimStart(Tail(line)))
    ELSE 0

\* The number of digits line begins with.
RECURSIVE LeadingDigits(_)
LeadingDigits(line) ==
    IF line # <<>> /\ Head(line) \in Digits THEN 1 + LeadingDigits(Tail(line)) ELSE 0

\* The length of the match of /^\d+\.\s+/ in line, 0 when there is none.
MatchNumbered(line) ==
    LET n == LeadingDigits(line)
    IN  IF n >= 1 /\ Len(line) >= n + 2 /\ line[n + 1] = "." /\ line[n + 2] \in Whitespace
        THEN Len(line) - Len(TrimStart(SubSeq(line, n + 2, Len(line))))
        ELSE 0

\* line.replace(regex, "") for a match of n characters at the start of line.
ReplaceMatch(line, n) == SubSeq(line, n + 1, Len(line))

\* Faulty variant: the last branch without its flushBullets().
ProcessLineKeepsBullets(st, raw) ==
    LET line == Trim(raw)
    IN  IF line = <<>> THEN FlushParagraph(FlushBullets(st))
        ELSE IF MatchMarker(line) > 0
        THEN [FlushParagraph(st) EXCEPT !.bullets = Append(@, ReplaceMatch(line, MatchMarker(line)))]
        ELSE IF MatchNumbered(line) > 0
        THEN [FlushParagraph(st) EXCEPT !.bullets = Append(@, ReplaceMatch(line, MatchNumbered(line)))]
        ELSE [st EXCEPT !.paragraphBuffer = Append(@, line)]

\* The callback of lines.forEach, lines 96-116.
ProcessLine(st, raw) ==
    LET line == Trim(raw)
    IN  IF line = <<>> THEN FlushParagraph(FlushBullets(st))
        ELSE IF MatchMarker(line) > 0
        THEN [FlushParagraph(st) EXCEPT !.bullets = Append(@, ReplaceMatch(line, MatchMarker(line)))]
        ELSE IF MatchNumbered(line) > 0
        THEN [FlushParagraph(st) EXCEPT !.bullets = Append(@, ReplaceMatch(line, MatchNumbered(line)))]
        ELSE [FlushBullets(st) EXCEPT !.paragraphBuffer = Append(@, line)]

\* forEach visits the next line.
RenderLine ==
    /\ ~returned
    /\ lineIndex < Len(lines)
    /\ LET st == ProcessLine(Locals, lines[lineIndex + 1])
       IN  /\ elements' = st.elements
           /\ paragraphBuffer' = st.paragraphBuffer
           /\ bullets' = st.bullets
           /\ keyCounter' = st.keyCounter
    /\ lineIndex' = lineIndex + 1
    /\ UNCHANGED <<lines, returned>>
    /\ UNCHANGED <<fetchVars, overviewVars, loginVars, businessId, issued, engineVars>>

\* Lines 118-122: what is left is flushed and the blocks returned.
RenderReturn ==
    /\ ~returned
    /\ lineIndex = Len(lines)
    /\ LET st == FlushParagraph(FlushBullets(Locals))
       IN  /\ elements' = st.elements
           /\ paragraphBuffer' = st.paragraphBuffer
           /\ bullets' = st.bullets
           /\ keyCounter' = st.keyCounter
    /\ returned' = TRUE
    /\ UNCHANGED <<lines, lineIndex>>
    /\ UNCHANGED <<fetchVars, overviewVars, loginVars, businessId, issued, engineVars>>

\* renderOverview called on a text: the text split, the locals as declared.
RenderInit ==
    /\ DashboardConstructed
    /\ LoginConstructed
    /\ route = "/dashboard"
    /\ localStorage = SetItem(<<>>, "business_id", <<"a">>)
    /\ submitted = <<"a">>
    /\ EngineIdle
    /\ lines \in OverviewSplits
    /\ lineIndex = 0
    /\ elements = <<>>
    /\ paragraphBuffer = <<>>
    /\ bullets = <<>>
    /\ keyCounter = 0
    /\ returned = FALSE

RenderNext ==
    \/ RenderLine
    \/ RenderReturn

RenderSpec == RenderInit /\ [][RenderNext]_vars

----------------------------------------------------------------------------
(* Properties of the merge, stated on the state fetchData leaves behind.    *)

\* The parsed History and Forecast arrays of the current fetchData run.
History == historicalResponse.body
Forecast == forecastResponse.body

\* fetchData has run to its end on two ok responses.
Succeeded ==
    /\ pc = "done"
    /\ historicalResponse.status = "ok"
    /\ forecastResponse.status = "ok"

StrictlyIncreasing(s) == \A i \in 1..(Len(s) - 1) : s[i].date < s[i + 1].date
OrderedInputs == StrictlyIncreasing(History) /\ StrictlyIncreasing(Forecast)

DatesOf(s) == {s[i].date : i \in 1..Len(s)}
Last(s) == s[Len(s)]
BothNonEmpty == History # <<>> /\ Forecast # <<>>

HasSales(c) == c.sales # Undefined
HasPredicted(c) == c.predicted_sales # Undefined

\* The positions S of chartData form one run: no position outside S lies between two of S.
Contiguous(S) ==
    \A i, k \in S : \A j \in 1..Len(chartData) : (i < j /\ j < k) => j \in S

SalesPositions == {i \in 1..Len(chartData) : HasSales(chartData[i])}
PredictedPositions == {i \in 1..Len(chartData) : HasPredicted(chartData[i])}

\* C1: in the Overlap case (first Forecast date at or before the last History date)
\* every merged point dated from the first Forecast date through the last History
\* date that carries a sales value has predicted_sales equal to that sales value.
C1_OverlapForcesEqual ==
    (Succeeded /\ BothNonEmpty /\ Forecast[1].date <= Last(History).date) =>
        \A i \in 1..Len(chartData) :
            ( /\ Forecast[1].date <= chartData[i].date
              /\ chartData[i].date <= Last(History).date
              /\ HasSales(chartData[i]) )
            => chartData[i].predicted_sales = chartData[i].sales

\* C1 witness: an Overlap merge in which a date of the span is in both inputs, the
\* Forecast's own estimate differs from the sale, and the chart shows the sale.
C1_Witness ==
    /\ Succeeded /\ BothNonEmpty /\ OrderedInputs
    /\ Forecast[1].date <= Last(History).date
    /\ \E i \in 1..Len(chartData), k \in 1..Len(Forecast) :
          /\ Forecast[k].date = chartData[i].date
          /\ HasSales(chartData[i])
          /\ Forecast[k].predicted_sales # chartData[i].sales
          /\ chartData[i].predicted_sales = chartData[i].sales

\* C2 (as claimed, the rule): in the Overlap case a History point dated after the
\* last Forecast date keeps predicted_sales unset.
C2_AfterLastForecastUnset ==
    (Succeeded /\ OrderedInputs /\ BothNonEmpty /\ Forecast[1].date <= Last(History).date) =>
        \A i \in 1..Len(chartData) :
            (HasSales(chartData[i]) /\ chartData[i].date > Last(Forecast).date)
            => chartData[i].predicted_sales = Undefined

\* C2 (as claimed, its instance): for History 2024-01-01 sales=50, 2024-01-08
\* sales=60 and Forecast 2024-01-01 predicted_sales=55 (dates 1 and 2) the merged
\* 2024-01-01 point has sales=50 and predicted_sales=50, and the merged 2024-01-08
\* point has sales=60 and no predicted_sales.
C2_OverlapExample ==
    ( /\ Succeeded
      /\ History = <<HistoricalRecord(1, 50), HistoricalRecord(2, 60)>>
      /\ Forecast = <<ForecastRecord(1, 55)>> )
    => chartData = << [date |-> 1, sales |-> 50, predicted_sales |-> 50],
                      [date |-> 2, sales |-> 60, predicted_sales |-> Undefined] >>

\* C3: Gap or Adjacent (first Forecast date later than the last History date): the
\* point at the last History date gets predicted_sales equal to its sales, no point
\* is synthesized, and every other History point keeps predicted_sales unset.
C3_SeamBridging ==
    (Succeeded /\ OrderedInputs /\ BothNonEmpty /\ Forecast[1].date > Last(History).date) =>
        /\ Len(chartData) = Len(History) + Len(Forecast)
        /\ DatesOf(chartData) = DatesOf(History) \cup DatesOf(Forecast)
        /\ \E i \in 1..Len(chartData) : chartData[i].date = Last(History).date
        /\ \A i \in 1..Len(chartData) :
              /\ chartData[i].date = Last(History).date =>
                    /\ chartData[i].sales = Last(History).sales
                    /\ chartData[i].predicted_sales = chartData[i].sales
              /\ (HasSales(chartData[i]) /\ chartData[i].date # Last(History).date) =>
                    chartData[i].predicted_sales = Undefined

\* C3 witness: a Gap merge (more than one period between the series) with two
\* History points, the earlier one left without predicted_sales.
C3_Witness ==
    /\ Succeeded /\ OrderedInputs
    /\ Len(History) = 2 /\ Forecast # <<>>
    /\ Forecast[1].date > Last(History).date + 1
    /\ chartData[1].predicted_sales = Undefined
    /\ chartData[2].predicted_sales = Last(History).sales

\* C4: for inputs with strictly increasing dates the dates of the merged output are
\* the ascending, duplicate-free union of the dates of the two inputs.
C4_DatesAreSortedUnion ==
    (Succeeded /\ OrderedInputs) =>
        /\ StrictlyIncreasing(chartData)
        /\ DatesOf(chartData) = DatesOf(History) \cup DatesOf(Forecast)

\* C4 witness: a date present in both inputs collapsed into one point, and a
\* Forecast-only date that the sort had to move in front of a History date.
C4_Witness ==
    /\ Succeeded /\ OrderedInputs
    /\ DatesOf(History) \cap DatesOf(Forecast) # {}
    /\ Len(chartData) < Len(History) + Len(Forecast)
    /\ \E k \in 1..Len(Forecast) :
          /\ Forecast[k].date \notin DatesOf(History)
          /\ Forecast[k].date < Last(History).date

\* C5: every merged point's sales is the History value for its date and is unset
\* when the date is not in History; and for inputs with strictly increasing dates
\* every Forecast date later than the last History date keeps the Forecast's
\* predicted_sales.
C5_FieldsFromInputs ==
    Succeeded =>
        /\ \A i \in 1..Len(chartData) :
              IF chartData[i].date \in DatesOf(History)
              THEN \E j \in 1..Len(History) :
                      /\ History[j].date = chartData[i].date
                      /\ History[j].sales = chartData[i].sales
              ELSE chartData[i].sales = Undefined
        /\ (OrderedInputs /\ History # <<>>) =>
              \A k \in 1..Len(Forecast) :
                  Forecast[k].date > Last(History).date =>
                      \E i \in 1..Len(chartData) :
                          /\ chartData[i].date = Forecast[k].date
                          /\ chartData[i].predicted_sales = Forecast[k].predicted_sales

\* C5 witness: a merge with a History-only point, a Forecast-only point after the
\* last History date, and a point of both.
C5_Witness ==
    /\ Succeeded /\ OrderedInputs /\ BothNonEmpty
    /\ Last(Forecast).date > Last(History).date
    /\ DatesOf(History) \cap DatesOf(Forecast) # {}
    /\ \E i \in 1..Len(chartData) :
          /\ chartData[i].date = Last(Forecast).date
          /\ chartData[i].sales = Undefined
          /\ chartData[i].predicted_sales = Last(Forecast).predicted_sales

\* C6 (as claimed): when the dates of History or of Forecast are not strictly
\* increasing the merge fails: an error is reported and no merged sequence is
\* produced.
C6_UnorderedInputFails ==
    (pc = "done" /\ historicalResponse.status = "ok" /\ forecastResponse.status = "ok"
        /\ ~OrderedInputs)
    => (error # "" /\ chartData = <<>>)

\* C7: a non-empty History (dates strictly increasing) merged with an empty
\* Forecast yields exactly History's points in order, predicted_sales unset on each;
\* two empty inputs yield the empty sequence, and no error.
C7_EmptyForecast ==
    /\ (Succeeded /\ StrictlyIncreasing(History) /\ History # <<>> /\ Forecast = <<>>) =>
          /\ Len(chartData) = Len(History)
          /\ \A i \in 1..Len(chartData) :
                /\ chartData[i].date = History[i].date
                /\ chartData[i].sales = History[i].sales
                /\ chartData[i].predicted_sales = Undefined
    /\ (Succeeded /\ History = <<>> /\ Forecast = <<>>) =>
          (chartData = <<>> /\ error = "")

\* C7 witness: two History points, the last with a sale of 50, charted against an
\* empty Forecast.
C7_Witness ==
    /\ Succeeded /\ StrictlyIncreasing(History)
    /\ Len(History) = 2 /\ Forecast = <<>>
    /\ Len(chartData) = 2
    /\ chartData[2].sales = 50
    /\ chartData[2].predicted_sales = Undefined

\* C8 (as claimed): for inputs with strictly increasing dates the merged points
\* whose sales is defined form one contiguous run of the merged sequence.
C8_HistoricalLineUnbroken ==
    (Succeeded /\ OrderedInputs) => Contiguous(SalesPositions)

\* C9: for non-empty inputs with strictly increasing dates the merged points whose
\* predicted_sales is defined form one contiguous run, and the run holds the point
\* at the last History date, where predicted_sales equals sales.
C9_ForecastLineTouches ==
    (Succeeded /\ OrderedInputs /\ BothNonEmpty) =>
        /\ Contiguous(PredictedPositions)
        /\ \E i \in 1..Len(chartData) :
              /\ chartData[i].date = Last(History).date
              /\ HasPredicted(chartData[i])
              /\ chartData[i].predicted_sales = chartData[i].sales
              /\ chartData[i].sales = Last(History).sales

\* C9 witness: an Overlap merge in which a History date between two Forecast dates
\* has no Forecast record of its own, and the forecast line still runs through it.
C9_Witness ==
    /\ Succeeded /\ OrderedInputs
    /\ Len(History) = 2 /\ Len(Forecast) = 2
    /\ Forecast[1].date = History[1].date
    /\ Forecast[2].date > History[2].date
    /\ Len(chartData) = 3
    /\ chartData[2].predicted_sales = History[2].sales

\* C10: after fetchData the historicalData and forecastData states hold the fetched
\* History and Forecast records unchanged, whatever the merge wrote into chartData.
C10_InputsUnchanged ==
    Succeeded =>
        /\ historicalData = History
        /\ forecastData = Forecast

\* C10 witness: an Overlap merge that overwrote the chart's predicted_sales at a
\* date of both inputs, while the Forecast record still holds its own estimate.
C10_Witness ==
    /\ Succeeded /\ OrderedInputs /\ BothNonEmpty
    /\ History[1].date = Forecast[1].date
    /\ chartData[1].predicted_sales = History[1].sales
    /\ forecastData[1].predicted_sales = 55
    /\ historicalData[1].predicted_sales = Undefined

----------------------------------------------------------------------------
(* Properties of fetchData and fetchOverview as processes.                  *)

BothOk == historicalResponse.status = "ok" /\ forecastResponse.status = "ok"
FailureMessage == "Failed to load dashboard data. Please check your connection."

\* C11: a fetchData run starts the History read and the Forecast read in one step;
\* historicalData, forecastData and chartData change only in a step taken with both
\* responses ok; and a run that ends with a read rejected or not ok leaves the three
\* unchanged and sets error to the failure message.
C11_MergeOnlyAfterBothOk ==
    [][ /\ (inFlight' > inFlight) =>
              /\ historicalResponse' = Pending
              /\ forecastResponse' = Pending
              /\ {Request("input", businessId'), Request("forecast", businessId')} \subseteq issued'
        /\ (<<historicalData, forecastData, chartData>>' # <<historicalData, forecastData, chartData>>)
              => (pc = "awaiting" /\ BothOk)
        /\ (pc = "awaiting" /\ pc' = "done" /\ ~BothOk) =>
              /\ UNCHANGED <<historicalData, forecastData, chartData>>
              /\ error' = FailureMessage
      ]_vars

\* C11 witness: a run ended on a 404 for the History read while the Forecast read
\* had delivered a non-empty body; nothing charted, the error set.
C11_Witness ==
    /\ pc = "done"
    /\ historicalResponse.status = "notok"
    /\ forecastResponse.status = "ok"
    /\ forecastResponse.body # <<>>
    /\ historicalData = <<>> /\ forecastData = <<>> /\ chartData = <<>>
    /\ error = FailureMessage

\* C12: while a fetchData run is in flight isLoading is true and error is empty;
\* with both reads settling, every run comes to its end with isLoading false; and
\* after a run error is non-empty exactly when the run failed.
C12_LoadingEndsAndErrorTellsFailure ==
    /\ [](pc = "awaiting" => (isLoading /\ error = ""))
    /\ [](pc = "done" => (~isLoading /\ (error # "" <=> ~BothOk)))
    /\ (pc = "awaiting") ~> (pc = "done" /\ ~isLoading)

\* C12 witness: a run that failed on a rejected Forecast read while the History
\* read was still pending, the loading view gone and the error shown.
C12_Witness ==
    /\ pc = "done"
    /\ forecastResponse.status = "rejected"
    /\ historicalResponse.status = "pending"
    /\ ~isLoading
    /\ error # ""

\* C13: the step that ends a fetchOverview run, in success or in failure, changes
\* none of isLoading, error, historicalData, forecastData, chartData; the step that
\* ends a fetchData run changes none of overview, overviewError, isOverviewLoading.
C13_OverviewDoesNotBlockDashboard ==
    [][ /\ (opc = "awaiting" /\ opc' = "done") =>
              UNCHANGED <<isLoading, error, historicalData, forecastData, chartData>>
        /\ (pc = "awaiting" /\ pc' = "done") =>
              UNCHANGED <<overview, overviewError, isOverviewLoading>>
      ]_vars

\* C13 witness: the overview failed while fetchData was still awaiting its reads,
\* the dashboard still loading and without error.
C13_Witness ==
    /\ opc = "done"
    /\ overviewError # ""
    /\ pc = "awaiting"
    /\ historicalResponse.status = "ok"
    /\ isLoading
    /\ error = ""

\* The dates the engine's last run returned, in order.
EngineDates == [k \in 1..Len(engineOutput.points) |-> engineOutput.points[k].date]

\* C14: for every valid history of at least the minimum length and every horizon
\* h >= 1 the Forecast Engine returns exactly h points, their dates strictly
\* increasing, each one input period (the spacing of the last two input dates)
\* after the one before, the first one period after the last input date.
C14_HorizonPointsContinueCadence ==
    (engineHorizon >= 1 /\ ValidSeries(engineInput) /\ Len(engineInput) >= MinimumPeriods) =>
        /\ engineOutput.status = "ok"
        /\ Len(engineOutput.points) = engineHorizon
        /\ \A k \in 1..(engineHorizon - 1) : EngineDates[k] < EngineDates[k + 1]
        /\ \A k \in 1..engineHorizon :
              EngineDates[k] - (IF k = 1 THEN engineInput[Len(engineInput)].date ELSE EngineDates[k - 1])
                  = engineInput[Len(engineInput)].date - engineInput[Len(engineInput) - 1].date

\* C14 witness: a history of three periods spaced 1 then 2, forecast over three
\* periods: the points fall 2, 4 and 6 after the last input date.
C14_Witness ==
    /\ engineOutput.status = "ok"
    /\ Len(engineInput) = 3
    /\ engineInput[1].date = 1 /\ engineInput[2].date = 2 /\ engineInput[3].date = 4
    /\ engineHorizon = 3
    /\ EngineDates = <<6, 8, 10>>

\* The id under the key business_id, null when there is none.
StoredBusinessId == GetItem(localStorage, "business_id")

\* The three requests of the dashboard for a business id.
RequestsFor(id) == {Request("input", id), Request("forecast", id), Request("overview", id)}

\* C15: handleLogin on an empty or blank id writes nothing and starts no navigation
\* (loginLoading, which only a login under way has set, stays false);
\* otherwise it stores the trimmed id under business_id, and only then navigates.
\* The mounted dashboard has read exactly the trimmed id and issued its three
\* requests, and no other, with it.
C15_LoginStoresTrimmedId ==
    /\ [][ /\ (route = "/" /\ ~loginLoading /\ Trim(loginInput) = <<>>) =>
                 (localStorage' = localStorage /\ ~loginLoading')
           /\ (route = "/" /\ localStorage' # localStorage) =>
                 /\ localStorage' = SetItem(localStorage, "business_id", Trim(loginInput))
                 /\ route' = "/"
           /\ (route = "/" /\ route' = "/dashboard" /\ loginLoading) =>
                 (StoredBusinessId = Trim(submitted) /\ Trim(submitted) # <<>>)
         ]_vars
    /\ []((route = "/dashboard" /\ pc # "idle") =>
              /\ businessId = Trim(submitted)
              /\ StoredBusinessId = Trim(submitted)
              /\ issued = RequestsFor(Trim(submitted)))

\* C15 witness: the id typed with a blank on either side, the dashboard mounted
\* after the login and its three requests issued for the id without the blanks.
C15_Witness ==
    /\ route = "/dashboard"
    /\ pc = "awaiting" /\ opc = "awaiting"
    /\ submitted = <<" ", "a", " ">>
    /\ StoredBusinessId = <<"a">>
    /\ businessId = <<"a">>
    /\ issued = RequestsFor(<<"a">>)

Sorted == Combine(History, Forecast)

\* C17: with sales on every History record and predicted_sales on every Forecast
\* record, every point of the sorted combinedData carries one of the two fields,
\* firstForecastIndex is at most lastHistoricalIndex + 1 and the 'gap' branch is not
\* taken; ordered inputs with more than a period between the last History date and
\* the first Forecast date take the 'adjacent' branch.
C17_GapBranchNeverTaken ==
    Succeeded =>
        /\ LET points == Deref(Sorted.heap, Sorted.combined)
               lhi == FindLastIndex({i \in 1..Len(points) : HasSales(points[i])})
               ffi == FindIndex({i \in 1..Len(points) : HasPredicted(points[i])})
           IN  /\ \A i \in 1..Len(points) : HasSales(points[i]) \/ HasPredicted(points[i])
               /\ ffi <= lhi + 1
        /\ seamBranch # "gap"
        /\ (BothNonEmpty /\ OrderedInputs /\ Forecast[1].date > Last(History).date + 1)
              => seamBranch = "adjacent"

\* C17 witness: History on the periods 1 and 2, Forecast on period 4 alone: period
\* 3 is missing between them, and the merge took the 'adjacent' branch.
C17_Witness ==
    /\ Succeeded
    /\ DatesOf(History) = {1, 2} /\ OrderedInputs
    /\ DatesOf(Forecast) = {4}
    /\ seamBranch = "adjacent"

\* Every Forecast date is earlier than every History date, neither array empty.
ForecastPrecedesHistory ==
    /\ BothNonEmpty
    /\ \A k \in 1..Len(Forecast), j \in 1..Len(History) : Forecast[k].date < History[j].date

\* C18: when every Forecast date is earlier than every History date the merge takes
\* the overlap branch; the chart has a point for every date of either input, every
\* History point with predicted_sales equal to its sales, every Forecast point with
\* the Forecast's predicted_sales and no sales.
C18_ForecastBeforeHistory ==
    (Succeeded /\ ForecastPrecedesHistory) =>
        /\ seamBranch = "overlap"
        /\ {chartData[i].date : i \in 1..Len(chartData)} = DatesOf(History) \cup DatesOf(Forecast)
        /\ \A i \in 1..Len(chartData) :
              /\ chartData[i].date \in DatesOf(History) =>
                    /\ \E j \in 1..Len(History) :
                          /\ History[j].date = chartData[i].date
                          /\ History[j].sales = chartData[i].sales
                    /\ chartData[i].predicted_sales = chartData[i].sales
              /\ chartData[i].date \in DatesOf(Forecast) =>
                    /\ chartData[i].sales = Undefined
                    /\ \E k \in 1..Len(Forecast) :
                          /\ Forecast[k].date = chartData[i].date
                          /\ Forecast[k].predicted_sales = chartData[i].predicted_sales

\* C18 witness: Forecast on period 1, History on the periods 2 and 3 with the sales
\* 50 and 60: the chart is (1: -, 55), (2: 50, 50), (3: 60, 60).
C18_Witness ==
    /\ Succeeded
    /\ seamBranch = "overlap"
    /\ Forecast = <<ForecastRecord(1, 55)>>
    /\ History = <<HistoricalRecord(2, 50), HistoricalRecord(3, 60)>>
    /\ chartData = << [date |-> 1, sales |-> Undefined, predicted_sales |-> 55],
                      [date |-> 2, sales |-> 50, predicted_sales |-> 50],
                      [date |-> 3, sales |-> 60, predicted_sales |-> 60] >>

\* C19: when History is empty and Forecast is not, no seam branch is taken; the chart
\* has one point for each Forecast date, in ascending date order, with the
\* Forecast's predicted_sales and no sales; for a Forecast in ascending order the
\* chart is the Forecast itself.
C19_EmptyHistory ==
    (Succeeded /\ History = <<>> /\ Forecast # <<>>) =>
        /\ seamBranch = "none"
        /\ StrictlyIncreasing(chartData)
        /\ DatesOf(chartData) = DatesOf(Forecast)
        /\ \A i \in 1..Len(chartData) :
              /\ chartData[i].sales = Undefined
              /\ \E k \in 1..Len(Forecast) :
                    /\ Forecast[k].date = chartData[i].date
                    /\ Forecast[k].predicted_sales = chartData[i].predicted_sales
        /\ StrictlyIncreasing(Forecast) => chartData = Forecast

\* C19 witness: no History, a Forecast on the periods 2 and 4: the chart is the
\* Forecast's two points, and no branch of the seam logic ran.
C19_Witness ==
    /\ Succeeded
    /\ History = <<>>
    /\ Forecast = <<ForecastRecord(2, 55), ForecastRecord(4, 55)>>
    /\ chartData = Forecast
    /\ seamBranch = "none"

\* The Retry button is on the screen: the loading view is not shown (line 256) and
\* the error banner is (line 291).
RetryRendered == ~isLoading /\ error # ""

\* C20: with the mount effect run once, at most one fetchData run is in flight: a
\* run in flight keeps isLoading true, the Retry button is rendered only with no
\* run in flight, a click on it starts the one run with isLoading set, and
\* historicalData, forecastData and chartData are written only by the end of
\* that one run.
C20_AtMostOneFetchInFlight ==
    /\ [](inFlight <= 1)
    /\ [](inFlight = 1 => isLoading)
    /\ [](RetryRendered => inFlight = 0)
    /\ [][ /\ (inFlight' > inFlight) => (inFlight = 0 /\ inFlight' = 1 /\ isLoading')
           /\ (pc = "done" /\ pc' = "awaiting") => RetryRendered
           /\ (<<historicalData, forecastData, chartData>>' # <<historicalData, forecastData, chartData>>)
                 => (inFlight = 1 /\ inFlight' = 0)
          ]_vars

\* C20 witness: a run has failed on a rejected /input request with /forecast
\* still pending; the Retry button is rendered and no run is in flight.
C20_Witness ==
    /\ pc = "done"
    /\ RetryRendered
    /\ inFlight = 0
    /\ historicalResponse.status = "rejected"
    /\ forecastResponse.status = "pending"
    /\ chartData = <<>>

\* The lengths n of a bullet marker the trimmed line t may begin with: one of the
\* characters dash, star, dot, or one or more digits and a period; white space
\* follows it.
MarkerLengths(t) ==
    { n \in 1..(Len(t) - 1) :
        /\ \/ n = 1 /\ t[1] \in Markers
           \/ n >= 2 /\ t[n] = "." /\ \A i \in 1..(n - 1) : t[i] \in Digits
        /\ t[n + 1] = " " }

\* What a line of the text is: "blank" (empty once trimmed), "bullet" or "text".
KindOf(raw) ==
    IF Trim(raw) = <<>> THEN "blank"
    ELSE IF MarkerLengths(Trim(raw)) # {} THEN "bullet"
    ELSE "text"

\* What a non-blank line contributes to its block: the trimmed line, for a bullet
\* line from the first character behind the marker that is not white space.
ContentOf(raw) ==
    LET t == Trim(raw)
    IN  IF MarkerLengths(t) = {} THEN t
        ELSE LET n == CHOOSE n \in MarkerLengths(t) : TRUE
                 k == CHOOSE k \in (n + 1)..Len(t) :
                          t[k] # " " /\ \A i \in (n + 1)..(k - 1) : t[i] = " "
             IN  SubSeq(t, k, Len(t))

\* The maximal runs <<a, b>> of consecutive lines of one kind, blank lines apart.
Runs ==
    { r \in (1..Len(lines)) \X (1..Len(lines)) :
        /\ r[1] <= r[2]
        /\ KindOf(lines[r[1]]) # "blank"
        /\ \A i \in r[1]..r[2] : KindOf(lines[i]) = KindOf(lines[r[1]])
        /\ r[1] = 1 \/ KindOf(lines[r[1] - 1]) # KindOf(lines[r[1]])
        /\ r[2] = Len(lines) \/ KindOf(lines[r[2] + 1]) # KindOf(lines[r[1]]) }

\* The contents of the lines of the run r, in input order.
RunContents(r) == [i \in 1..(r[2] - r[1] + 1) |-> ContentOf(lines[r[1] + i - 1])]

\* C21: after each line renderOverview has processed, the paragraph buffer and the
\* bullet buffer are never both non-empty; both are empty when it returns; and the
\* blocks it returns are, in input order, one block for each maximal run of
\* consecutive bullet lines (a list of their contents) or of consecutive text
\* lines (a paragraph of them joined), so that every non-blank line is in exactly
\* one block.
C21_OverviewBlocks ==
    /\ ~(paragraphBuffer # <<>> /\ bullets # <<>>)
    /\ returned =>
          /\ paragraphBuffer = <<>> /\ bullets = <<>>
          /\ Len(elements) = Cardinality(Runs)
          /\ \A r \in Runs :
                LET block == elements[Cardinality({q \in Runs : q[1] < r[1]}) + 1]
                IN  IF KindOf(lines[r[1]]) = "bullet"
                    THEN block.tag = "ul" /\ block.markdown = RunContents(r)
                    ELSE block.tag = "p" /\ block.markdown = <<JoinWithSpace(RunContents(r))>>

\* C21 witness: the text " -  i ", "1. g", "b c": a dash line with blanks around it
\* and a numbered line make one list of "i" and "g", the text line a paragraph.
C21_Witness ==
    /\ returned
    /\ lines = << <<" ", "-", " ", " ", "i", " ">>, <<"1", ".", " ", "g">>, <<"b", " ", "c">> >>
    /\ elements = << [tag |-> "ul", key |-> 0, markdown |-> << <<"i">>, <<"g">> >>],
                     [tag |-> "p", key |-> 1, markdown |-> << <<"b", " ", "c">> >>] >>
====
